---- MODULE Spec2Model ----
(***************************************************************************)
(* Workout tracking API: the session lifecycle (start / log / end) and the *)
(* per-user recommendation, as implemented by app/crud.py on top of the    *)
(* tables declared in app/models.py and the request validation of          *)
(* app/schemas.py.                                                         *)
(*                                                                         *)
(* Spec     : requests are served one at a time, each handler is one step. *)
(* SpecNames: as Spec, with requests that name their exercise.             *)
(* SpecReads: as Spec, with the read requests (recommendation, session     *)
(*            listing).                                                    *)
(* SpecProgress: the requests of one user, with sessions of 1 or 2 reps.   *)
(* SpecConc : requests of several workers interleave; every worker owns    *)
(*            its own database session, reads see committed rows, writes   *)
(*            become visible together at db.commit().                      *)
(* SpecCalc : calculate_next_reps called on its own.                       *)
(* SpecPage : the page arithmetic of the listing routes on its own.        *)
(* SpecLists: as Spec, with session listings of every page, size, sort     *)
(*            field and order.                                             *)
(* SpecStats: as SpecReads, with the user statistics, the clock standing.  *)
(* SpecSort : as SpecLists, the whole list by every sort field and order.  *)
(***************************************************************************)
EXTENDS Integers, Sequences, FiniteSets, TLC

\* ------------------------------------------------------------------ bounds
MaxUsers    == 2
MaxSessions == 2

\* The values datetime.utcnow() takes: two requests may fall on the same
\* instant or on successive ones.
Timestamps == 0..1

Procs == {1, 2}

\* Default recommendation for a user without history.
DefaultReps == 10

\* Request inputs: ids include one that never exists, reps include values the
\* schemas reject, the name may be left out ("").
UserIdInputs    == 1..(MaxUsers + 1)
SessionIdInputs == 1..(MaxSessions + 1)
AssignedInputs  == 0..1
CompletedInputs == (-1)..1
NameInputs      == {"", "Squats"}
\* Requests that leave the exercise name out.
DefaultNameInputs == {""}
StatusInputs == {"all", "active", "completed"}
\* Query parameters a listing request leaves out.
DefaultPage  == 1
DefaultLimit == 20
\* SpecLists: listings of the sessions of user 1, by pages of 0 to 2 items;
\* users 1 and 2 start sessions, each of 1 assigned rep and logged with 1.
ListUserInputs      == {1}
ListStartUserInputs == {1, 2}
ListPageInputs      == 1..2
ListLimitInputs     == 0..2
SortInputs          == {"started_at", "id"}
OrderInputs         == {"asc", "desc"}
ListAssignedInputs  == {1}
ListCompletedInputs == {1}
\* SpecSort: listings by a column, by a name the session class does not
\* have, and by a relationship; in a given order, and in one that is neither
\* "asc" nor "desc".
SortFieldInputs == {"started_at", "id", "ended_at", "bogus", "exercise"}
OrderFieldInputs == {"asc", "desc", "ASC"}
\* SpecProgress: the requests of one user, for sessions of 1 or 2 reps.
ProgressUserInputs == {1}
ProgressAssignedInputs == 1..2
\* Arguments of direct calls of calculate_next_reps: 0, the smallest counts
\* and the counts of the documented examples.
CalcInputs == {0, 1, 2, 5, 10}
\* Query parameters and item counts of listing requests on their own: page
\* and limit are plain integers, the counts lie around the page sizes used.
PageInputs  == {-1, 0, 1, 2, 3}
LimitInputs == {-1, 0, 1, 20, 100, 101, 150}
TotalInputs == {0, 1, 20, 21, 45, 100, 101, 250}

\* Nullable columns hold the empty set (NULL) or a singleton.
Null     == {}
Some(v)  == {v}
Get(x)   == CHOOSE v \in x : TRUE

VARIABLES
    users,            \* table users: sequence of rows, id = position
    sessions,         \* table workout_sessions, id = position
    exercises,        \* table exercises, id = position
    recommendations,  \* table workout_recommendations, id = position
    now,              \* datetime.utcnow()
    response,         \* the response sent last
    txn,              \* per worker: the request it is serving (SpecConc)
    calc,             \* a call of calculate_next_reps and the one before (SpecCalc)
    paging            \* the pagination of one listing request (SpecPage)

store == <<users, sessions, exercises, recommendations>>
vars  == <<users, sessions, exercises, recommendations, now, response, txn,
           calc, paging>>

\* ------------------------------------------------------------- row types
\* Only the columns a handler reads or decides on are kept (no names, e-mail
\* addresses, created_at / updated_at).
User(i) == [id |-> i]

WorkoutSession(u, t) ==
    [user_id |-> u, started_at |-> t, ended_at |-> Null, is_active |-> TRUE]

Exercise(s, a, n) ==
    [session_id |-> s, exercise_name |-> n, assigned_reps |-> a,
     completed_reps |-> Null]

WorkoutRecommendation(u, r) ==
    [user_id |-> u, next_recommended_reps |-> r]

\* ------------------------------------------------------------- responses
\* The part of a response that only GET .../recommendations fills in.
NoView ==
    [reason |-> "", trend |-> "", total_increase |-> 0, sessions_count |-> 0,
     last_session |-> 0]

\* items and total_pages are filled in by the session listing only.
Resp(op, code, id, value) ==
    [op |-> op, code |-> code, id |-> id, value |-> value, view |-> NoView,
     items |-> <<>>, total_pages |-> 0]

NoResponse == Resp("none", "NONE", 0, 0)

UserNotFoundException(op, u) == Resp(op, "USER_NOT_FOUND", u, 0)

WorkoutSessionNotFoundException(op, s) == Resp(op, "WORKOUT_SESSION_NOT_FOUND", s, 0)

\* Variant: the payload does not name the conflicting session.
ActiveSessionExistsExceptionNoId(op, u, sid) == Resp(op, "ACTIVE_SESSION_EXISTS", u, 0)

\* value carries active_session_id
ActiveSessionExistsException(op, u, sid) == Resp(op, "ACTIVE_SESSION_EXISTS", u, sid)

SessionNotActiveException(op, s) == Resp(op, "SESSION_NOT_ACTIVE", s, 0)

ExerciseNotLoggedException(op, s) == Resp(op, "EXERCISE_NOT_LOGGED", s, 0)

ValidationError(op) == Resp(op, "VALIDATION_ERROR", 0, 0)

InternalServerError(op, id) == Resp(op, "INTERNAL_SERVER_ERROR", id, 0)

\* ---------------------------------------------------------------- helpers
Max(a, b) == IF a >= b THEN a ELSE b

\* Variant: equal counts are not a completion.
calculate_next_reps_strict(assigned_reps, completed_reps) ==
    LET next_reps == IF completed_reps > assigned_reps
                     THEN assigned_reps + 2
                     ELSE assigned_reps - 1
    IN  Max(1, next_reps)

\* Variant: the result is not floored.
calculate_next_reps_no_floor(assigned_reps, completed_reps) ==
    IF completed_reps >= assigned_reps
    THEN assigned_reps + 2
    ELSE assigned_reps - 1

calculate_next_reps(assigned_reps, completed_reps) ==
    LET next_reps == IF completed_reps >= assigned_reps
                     THEN assigned_reps + 2
                     ELSE assigned_reps - 1
    IN  Max(1, next_reps)

\* query(...).filter(...).first() without ORDER BY: the matching row with the
\* lowest id, 0 when there is none.
First(S) == IF S = {} THEN 0 ELSE CHOOSE i \in S : \A j \in S : i <= j

UserExists(u) == u \in 1..Len(users)

SessionExists(s) == s \in 1..Len(sessions)

\* Variant: the active sessions of all users.
ActiveSessionsOfAnyUser(u) ==
    {i \in 1..Len(sessions) : sessions[i].is_active}

ActiveSessionsOf(u) ==
    {i \in 1..Len(sessions) : sessions[i].user_id = u /\ sessions[i].is_active}

ActiveSessionOf(u) == First(ActiveSessionsOf(u))

ExercisesOf(s) == {i \in 1..Len(exercises) : exercises[i].session_id = s}

\* session.exercise (uselist=False)
ExerciseOf(s) == First(ExercisesOf(s))

SessionIds == 1..Len(sessions)

UserIds == 1..Len(users)

EndedSessionsOf(u) ==
    {i \in SessionIds : sessions[i].user_id = u /\ ~sessions[i].is_active}

RecommendationsOf(u) ==
    {i \in 1..Len(recommendations) : recommendations[i].user_id = u}

RecommendationOf(u) == First(RecommendationsOf(u))

\* The router's `workout.exercise_name or "Push-ups"`.
ExerciseNameOrDefault(n) == IF n = "" THEN "Push-ups" ELSE n

\* Variant: any assigned_reps passes.
ValidSessionCreateAny(a) == TRUE

ValidSessionCreate(a) == a > 0

ValidExerciseLog(c) == c >= 0

\* ------------------------------------------------------------ store writes
\* Variant: the session row is committed without its exercise.
InsertSessionOnly(u, a, n) ==
    /\ sessions'  = Append(sessions, WorkoutSession(u, now))
    /\ exercises' = exercises

\* INSERT workout_sessions + INSERT exercises, one transaction.
InsertSessionAndExercise(u, a, n) ==
    /\ sessions'  = Append(sessions, WorkoutSession(u, now))
    /\ exercises' = Append(exercises, Exercise(Len(sessions) + 1, a, n))

\* Variant: only the first log is stored.
UpdateCompletedRepsOnce(s, c) ==
    exercises' = [exercises EXCEPT ![ExerciseOf(s)].completed_reps =
                     IF @ = Null THEN Some(c) ELSE @]

\* UPDATE exercises SET completed_reps
UpdateCompletedReps(s, c) ==
    exercises' = [exercises EXCEPT ![ExerciseOf(s)].completed_reps = Some(c)]

\* Variant: the session is deactivated without an end timestamp.
UpdateSessionEndedNoTimestamp(s, t) ==
    sessions' = [sessions EXCEPT ![s].is_active = FALSE]

\* UPDATE workout_sessions SET ended_at, is_active
UpdateSessionEnded(s, t) ==
    sessions' = [sessions EXCEPT ![s].ended_at = Some(t), ![s].is_active = FALSE]

\* Variant: an existing recommendation row is left as it is.
UpsertRecommendationInsertOnly(u, rec, next_reps) ==
    IF rec # 0
    THEN recommendations' = recommendations
    ELSE recommendations' = Append(recommendations,
                                   WorkoutRecommendation(u, next_reps))

\* Variant: the end of a session stores nothing.
UpsertRecommendationSkipped(u, rec, next_reps) ==
    recommendations' = recommendations

\* Variant: every end adds a row.
UpsertRecommendationAlwaysInsert(u, rec, next_reps) ==
    recommendations' = Append(recommendations,
                              WorkoutRecommendation(u, next_reps))

\* `rec` is the row the handler found for the user (0: none found).
UpsertRecommendation(u, rec, next_reps) ==
    IF rec # 0
    THEN recommendations' = [recommendations EXCEPT
                                ![rec].next_recommended_reps = next_reps]
    ELSE recommendations' = Append(recommendations,
                                   WorkoutRecommendation(u, next_reps))

\* A worker between requests.
Idle ==
    [pc |-> "idle", id |-> 0, a |-> 0, c |-> 0, name |-> "", rec |-> 0, t |-> 0]

\* No call of calculate_next_reps outside a handler.
NoCall ==
    [assigned_reps |-> 0, completed_reps |-> 0, result |-> Null, earlier |-> Null]

\* No listing request on its own.
NoPaging ==
    [page |-> 1, limit |-> 20, total |-> 0, status |-> "none", page_size |-> 0,
     skip |-> 0, total_pages |-> 0]

\* ------------------------------------------------------------------- Init
Init ==
    /\ users = <<>>
    /\ sessions = <<>>
    /\ exercises = <<>>
    /\ recommendations = <<>>
    /\ now = 0
    /\ response = NoResponse
    /\ txn = [p \in Procs |-> Idle]
    /\ calc = NoCall
    /\ paging = NoPaging

\* ------------------------------------------- Spec: one request at a time
Tick ==
    /\ now + 1 \in Timestamps
    /\ now' = now + 1
    /\ UNCHANGED <<users, sessions, exercises, recommendations, response, txn, calc,
                 paging>>

CreateUser ==
    /\ Len(users) < MaxUsers
    /\ users' = Append(users, User(Len(users) + 1))
    /\ response' = Resp("create_user", "OK", Len(users) + 1, 0)
    /\ UNCHANGED <<sessions, exercises, recommendations, now, paging, calc, txn>>

\* Variant: no check for an active session of the user.
StartSessionNoActiveCheck(u, a, name) ==
    /\ Len(sessions) < MaxSessions
    /\ UNCHANGED <<users, recommendations, now, paging, calc, txn>>
    /\ IF ~ValidSessionCreate(a)
       THEN /\ response' = ValidationError("start")
            /\ UNCHANGED <<sessions, exercises>>
       ELSE IF ~UserExists(u)
       THEN /\ response' = UserNotFoundException("start", u)
            /\ UNCHANGED <<sessions, exercises>>
       ELSE /\ InsertSessionAndExercise(u, a, ExerciseNameOrDefault(name))
            /\ response' = Resp("start", "OK", Len(sessions) + 1, a)

StartSession(u, a, name) ==
    /\ Len(sessions) < MaxSessions
    /\ UNCHANGED <<users, recommendations, now, paging, calc, txn>>
    /\ IF ~ValidSessionCreate(a)
       THEN /\ response' = ValidationError("start")
            /\ UNCHANGED <<sessions, exercises>>
       ELSE IF ~UserExists(u)
       THEN /\ response' = UserNotFoundException("start", u)
            /\ UNCHANGED <<sessions, exercises>>
       ELSE IF ActiveSessionOf(u) # 0
       THEN /\ response' = ActiveSessionExistsException("start", u, ActiveSessionOf(u))
            /\ UNCHANGED <<sessions, exercises>>
       ELSE /\ InsertSessionAndExercise(u, a, ExerciseNameOrDefault(name))
            /\ response' = Resp("start", "OK", Len(sessions) + 1, a)

\* Variant: an ended session can still be logged.
LogExerciseNoActiveCheck(s, c) ==
    /\ UNCHANGED <<users, sessions, recommendations, now, paging, calc, txn>>
    /\ IF ~ValidExerciseLog(c)
       THEN /\ response' = ValidationError("log")
            /\ UNCHANGED exercises
       ELSE IF ~SessionExists(s)
       THEN /\ response' = WorkoutSessionNotFoundException("log", s)
            /\ UNCHANGED exercises
       ELSE /\ UpdateCompletedReps(s, c)
            /\ response' = Resp("log", "OK", s, c)

LogExercise(s, c) ==
    /\ UNCHANGED <<users, sessions, recommendations, now, paging, calc, txn>>
    /\ IF ~ValidExerciseLog(c)
       THEN /\ response' = ValidationError("log")
            /\ UNCHANGED exercises
       ELSE IF ~SessionExists(s)
       THEN /\ response' = WorkoutSessionNotFoundException("log", s)
            /\ UNCHANGED exercises
       ELSE IF ~sessions[s].is_active
       THEN /\ response' = SessionNotActiveException("log", s)
            /\ UNCHANGED exercises
       ELSE /\ UpdateCompletedReps(s, c)
            /\ response' = Resp("log", "OK", s, c)

\* The writes of a successful end_workout_session.
EndAndRecommend(s, completed_reps) ==
    LET e == exercises[ExerciseOf(s)]
        next_reps == calculate_next_reps(e.assigned_reps, completed_reps)
        u == sessions[s].user_id
    IN  /\ UpdateSessionEnded(s, now)
        /\ UpsertRecommendation(u, RecommendationOf(u), next_reps)
        /\ UNCHANGED exercises
        /\ response' = Resp("end", "OK", s, next_reps)

\* Variant: an ended session can be ended again.
EndSessionNoActiveCheck(s) ==
    /\ UNCHANGED <<users, now, paging, calc, txn>>
    /\ IF ~SessionExists(s)
       THEN /\ response' = WorkoutSessionNotFoundException("end", s)
            /\ UNCHANGED <<sessions, exercises, recommendations>>
       ELSE IF exercises[ExerciseOf(s)].completed_reps = Null
       THEN /\ response' = ExerciseNotLoggedException("end", s)
            /\ UNCHANGED <<sessions, exercises, recommendations>>
       ELSE EndAndRecommend(s, Get(exercises[ExerciseOf(s)].completed_reps))

\* Variant: a session can be ended before its exercise is logged (the
\* missing count is taken as 0).
EndSessionNoLoggedCheck(s) ==
    /\ UNCHANGED <<users, now, paging, calc, txn>>
    /\ IF ~SessionExists(s)
       THEN /\ response' = WorkoutSessionNotFoundException("end", s)
            /\ UNCHANGED <<sessions, exercises, recommendations>>
       ELSE IF ~sessions[s].is_active
       THEN /\ response' = SessionNotActiveException("end", s)
            /\ UNCHANGED <<sessions, exercises, recommendations>>
       ELSE EndAndRecommend(s, IF exercises[ExerciseOf(s)].completed_reps = Null
                               THEN 0
                               ELSE Get(exercises[ExerciseOf(s)].completed_reps))

EndSession(s) ==
    /\ UNCHANGED <<users, now, paging, calc, txn>>
    /\ IF ~SessionExists(s)
       THEN /\ response' = WorkoutSessionNotFoundException("end", s)
            /\ UNCHANGED <<sessions, exercises, recommendations>>
       ELSE IF ~sessions[s].is_active
       THEN /\ response' = SessionNotActiveException("end", s)
            /\ UNCHANGED <<sessions, exercises, recommendations>>
       ELSE IF exercises[ExerciseOf(s)].completed_reps = Null
       THEN /\ response' = ExerciseNotLoggedException("end", s)
            /\ UNCHANGED <<sessions, exercises, recommendations>>
       ELSE EndAndRecommend(s, Get(exercises[ExerciseOf(s)].completed_reps))

\* ------------------------------------------------ get_recommendation
\* Variant: the ended session that ended first.
LastSessionsOldest(u) ==
    IF EndedSessionsOf(u) = {} THEN {0}
    ELSE {s \in EndedSessionsOf(u) :
            \A t \in EndedSessionsOf(u) :
               Get(sessions[s].ended_at) <= Get(sessions[t].ended_at)}

\* filter(user_id, is_active == False).order_by(desc(ended_at)).first():
\* 0 when the user has no ended session; among sessions with the same
\* ended_at the database may return any.
LastSessions(u) ==
    IF EndedSessionsOf(u) = {} THEN {0}
    ELSE {s \in EndedSessionsOf(u) :
            \A t \in EndedSessionsOf(u) :
               Get(sessions[s].ended_at) >= Get(sessions[t].ended_at)}

\* filter(user_id, is_active == False).order_by(asc(started_at)).first()
FirstSessions(u) ==
    IF EndedSessionsOf(u) = {} THEN {0}
    ELSE {s \in EndedSessionsOf(u) :
            \A t \in EndedSessionsOf(u) :
               sessions[s].started_at <= sessions[t].started_at}

\* Variant: every session of the user is counted.
CompletedSessionsAnyState(u) ==
    Cardinality({i \in SessionIds : sessions[i].user_id = u})

\* filter(user_id, is_active == False).count()
CompletedSessions(u) == Cardinality(EndedSessionsOf(u))

\* `session and session.exercise`
HasExercise(s) == s # 0 /\ ExercisesOf(s) # {}

\* Variant: the default is reported whatever is stored.
RecommendedRepsAlwaysDefault(u, last) == DefaultReps

RecommendedReps(u, last) ==
    IF RecommendationOf(u) # 0
    THEN recommendations[RecommendationOf(u)].next_recommended_reps
    ELSE IF HasExercise(last)
    THEN calculate_next_reps(exercises[ExerciseOf(last)].assigned_reps,
                             Get(exercises[ExerciseOf(last)].completed_reps))
    ELSE DefaultReps

\* Variant: a user without ended session is reported as adjusting.
ReasonAndTrendNeverNew(last) ==
    IF HasExercise(last)
         /\ Get(exercises[ExerciseOf(last)].completed_reps)
              >= exercises[ExerciseOf(last)].assigned_reps
    THEN [reason |-> "Completed all reps in last session", trend |-> "improving"]
    ELSE [reason |-> "Did not complete all reps in last session",
          trend |-> "adjusting"]

ReasonAndTrend(last) ==
    IF HasExercise(last)
    THEN IF Get(exercises[ExerciseOf(last)].completed_reps)
              >= exercises[ExerciseOf(last)].assigned_reps
         THEN [reason |-> "Completed all reps in last session",
               trend |-> "improving"]
         ELSE [reason |-> "Did not complete all reps in last session",
               trend |-> "adjusting"]
    ELSE [reason |-> "Starting recommendation", trend |-> "new"]

TotalIncrease(recommended_reps, first) ==
    IF HasExercise(first)
    THEN recommended_reps - exercises[ExerciseOf(first)].assigned_reps
    ELSE 0

\* GET /api/v1/users/{u}/recommendations. Comparing a completed_reps of None
\* raises TypeError, which the general handler answers with 500.
GetRecommendation(u) ==
    /\ UNCHANGED <<users, sessions, exercises, recommendations, now, paging, calc, txn>>
    /\ IF ~UserExists(u)
       THEN response' = UserNotFoundException("recommend", u)
       ELSE \E last \in LastSessions(u), first \in FirstSessions(u) :
              IF HasExercise(last)
                   /\ exercises[ExerciseOf(last)].completed_reps = Null
              THEN response' = InternalServerError("recommend", u)
              ELSE LET recommended_reps == RecommendedReps(u, last)
                   IN  response' =
                         [Resp("recommend", "OK", u, recommended_reps)
                            EXCEPT !.view =
                              [reason |-> ReasonAndTrend(last).reason,
                               trend |-> ReasonAndTrend(last).trend,
                               total_increase |->
                                  TotalIncrease(recommended_reps, first),
                               sessions_count |-> CompletedSessions(u),
                               last_session |-> last]]

\* ------------------------------------------------- get_user_stats
\* recommendation.next_recommended_reps if recommendation else 10
CurrentRecommendedReps(u) ==
    IF RecommendationOf(u) # 0
    THEN recommendations[RecommendationOf(u)].next_recommended_reps
    ELSE DefaultReps

\* The three counts of get_user_stats.
UserStats(u) ==
    [total_workouts  |-> Cardinality({s \in SessionIds : sessions[s].user_id = u}),
     total_exercises |-> Cardinality({e \in 1..Len(exercises) :
                            /\ exercises[e].session_id \in SessionIds
                            /\ sessions[exercises[e].session_id].user_id = u}),
     active_sessions |-> Cardinality(ActiveSessionsOf(u))]

\* Variant: a user without a recommendation gets the default stored.
GetUserStatsStoresDefault(u) ==
    /\ UNCHANGED <<users, sessions, exercises, now, paging, calc, txn>>
    /\ IF ~UserExists(u)
       THEN /\ response' = UserNotFoundException("stats", u)
            /\ UNCHANGED recommendations
       ELSE /\ response' = [Resp("stats", "OK", u, CurrentRecommendedReps(u))
                              EXCEPT !.view = UserStats(u)]
            /\ IF RecommendationOf(u) = 0
               THEN recommendations' = Append(recommendations,
                                          WorkoutRecommendation(u, DefaultReps))
               ELSE UNCHANGED recommendations

\* GET /api/v1/users/{u}
GetUserStats(u) ==
    /\ UNCHANGED <<users, sessions, exercises, recommendations, now, paging, calc, txn>>
    /\ IF ~UserExists(u)
       THEN response' = UserNotFoundException("stats", u)
       ELSE response' = [Resp("stats", "OK", u, CurrentRecommendedReps(u))
                           EXCEPT !.view = UserStats(u)]

\* ------------------------------------------------- pagination
\* limit = min(limit, 100)
PageSize(limit) == IF limit <= 100 THEN limit ELSE 100

\* skip = (page - 1) * limit
Skip(page, limit) == (page - 1) * PageSize(limit)

\* math.ceil(a / b), b # 0
CeilDiv(a, b) ==
    IF b > 0 THEN -((-a) \div b) ELSE -(a \div (-b))

\* Variant: the quotient is rounded down.
TotalPagesFloor(total, limit) ==
    IF total > 0 THEN total \div PageSize(limit) ELSE 1

\* total_pages = math.ceil(total / limit) if total > 0 else 1
TotalPages(total, limit) ==
    IF total > 0 THEN CeilDiv(total, PageSize(limit)) ELSE 1

\* ------------------------------------------ get_user_workout_sessions
\* Variant: the status filter is not applied.
FilteredSessionsAnyStatus(u, status) ==
    {i \in SessionIds : sessions[i].user_id = u}

\* filter(user_id == u), then is_active == True for "active", is_active ==
\* False for "completed" and nothing more for any other status.
FilteredSessions(u, status) ==
    {i \in SessionIds :
       /\ sessions[i].user_id = u
       /\ status = "active" => sessions[i].is_active
       /\ status = "completed" => ~sessions[i].is_active}

\* Attributes of models.WorkoutSession: its columns and its relationships.
SessionColumns == {"id", "user_id", "started_at", "ended_at", "is_active"}
SessionRelationships == {"user", "exercise"}

\* getattr(models.WorkoutSession, sort_by, models.WorkoutSession.started_at):
\* the default is taken only for a name the class has no attribute for.
SortColumn(sort_by) ==
    IF sort_by \in SessionColumns \cup SessionRelationships
    THEN sort_by ELSE "started_at"

\* The value of a column in row s. Where a NULL ended_at sorts is the
\* database's choice: below every timestamp (nulls_low) or above.
SortKey(sort_by, s, nulls_low) ==
    CASE SortColumn(sort_by) = "id"         -> s
      [] SortColumn(sort_by) = "user_id"    -> sessions[s].user_id
      [] SortColumn(sort_by) = "is_active"  -> IF sessions[s].is_active THEN 1 ELSE 0
      [] SortColumn(sort_by) = "ended_at"   ->
            IF sessions[s].ended_at # Null THEN Get(sessions[s].ended_at)
            ELSE IF nulls_low THEN -1 ELSE Cardinality(Timestamps)
      [] OTHER                              -> sessions[s].started_at

\* asc(sort_column) if order == "asc" else desc(sort_column). A relationship
\* is not a column of the table: ordering by it does not order the rows by
\* any of their values.
Ordered(list, sort_by, order) ==
    \/ SortColumn(sort_by) \in SessionRelationships
    \/ \E nulls_low \in BOOLEAN :
         \A i, j \in DOMAIN list :
            i < j => IF order = "asc"
                     THEN SortKey(sort_by, list[i], nulls_low)
                            <= SortKey(sort_by, list[j], nulls_low)
                     ELSE SortKey(sort_by, list[i], nulls_low)
                            >= SortKey(sort_by, list[j], nulls_low)

\* How ordering by the attribute can end: whether a relationship is accepted
\* in ORDER BY depends on the library and the database; a refusal ends in
\* the general handler.
SortOutcomes(sort_by) ==
    IF SortColumn(sort_by) \in SessionRelationships
    THEN {"INTERNAL_SERVER_ERROR", "OK"} ELSE {"OK"}

\* The orders in which the database may return the rows of S: rows with the
\* same key come in any order.
SortedLists(S, sort_by, order) ==
    {list \in [1..Cardinality(S) -> S] :
       /\ \A i, j \in DOMAIN list : i # j => list[i] # list[j]
       /\ Ordered(list, sort_by, order)}

\* query.offset(skip).limit(limit).all(), for a database that accepts a
\* negative OFFSET as 0 and a negative LIMIT as no limit.
PageOf(list, skip, limit) ==
    LET from == IF skip < 0 THEN 0 ELSE skip
        upto == IF limit < 0 \/ from + limit > Len(list)
                THEN Len(list) ELSE from + limit
    IN  IF upto <= from THEN <<>>
        ELSE [i \in 1..(upto - from) |-> list[from + i]]

\* How a listing of `total` rows can end: a negative OFFSET or LIMIT is
\* refused by some databases and accepted by others; a page size of 0 with
\* rows to count divides by zero. Both failures end in the general handler.
ListOutcomes(total, skip, size) ==
    (IF skip < 0 \/ size < 0 \/ (total > 0 /\ size = 0)
     THEN {"INTERNAL_SERVER_ERROR"} ELSE {})
    \cup (IF total > 0 /\ size = 0 THEN {} ELSE {"OK"})

\* Variant: the user is not looked up.
ListUserSessionsNoUserCheck(u, status, page, limit, sort_by, order) ==
    /\ UNCHANGED <<users, sessions, exercises, recommendations, now, paging, calc, txn>>
    /\ response' = Resp("list", "OK", u,
                        Cardinality(FilteredSessions(u, status)))

\* The responses GET /api/v1/users/{u}/workouts can send in this state.
ListResponses(u, status, page, limit, sort_by, order) ==
    IF ~UserExists(u)
    THEN {UserNotFoundException("list", u)}
    ELSE LET total == Cardinality(FilteredSessions(u, status))
             size  == PageSize(limit)
             skip  == Skip(page, limit)
         IN  UNION {IF outcome = "INTERNAL_SERVER_ERROR"
                    THEN {InternalServerError("list", u)}
                    ELSE {[Resp("list", "OK", u, total) EXCEPT
                             !.items = PageOf(list, skip, size),
                             !.total_pages = TotalPages(total, limit)] :
                          list \in SortedLists(FilteredSessions(u, status),
                                               sort_by, order)} :
                    outcome \in
                       IF "OK" \in ListOutcomes(total, skip, size)
                       THEN ListOutcomes(total, skip, size)
                              \cup SortOutcomes(sort_by)
                       ELSE ListOutcomes(total, skip, size)}

\* GET /api/v1/users/{u}/workouts
ListUserSessions(u, status, page, limit, sort_by, order) ==
    /\ UNCHANGED <<users, sessions, exercises, recommendations, now, paging, calc, txn>>
    /\ response' \in ListResponses(u, status, page, limit, sort_by, order)

Next ==
    \/ Tick
    \/ CreateUser
    \/ \E u \in UserIdInputs, a \in AssignedInputs, n \in DefaultNameInputs :
          StartSession(u, a, n)
    \/ \E s \in SessionIdInputs, c \in CompletedInputs : LogExercise(s, c)
    \/ \E s \in SessionIdInputs : EndSession(s)

Spec == Init /\ [][Next]_vars

\* The same, with requests that name their exercise.
NextNames ==
    \/ Tick
    \/ CreateUser
    \/ \E u \in UserIdInputs, a \in AssignedInputs, n \in NameInputs :
          StartSession(u, a, n)
    \/ \E s \in SessionIdInputs, c \in CompletedInputs : LogExercise(s, c)
    \/ \E s \in SessionIdInputs : EndSession(s)

SpecNames == Init /\ [][NextNames]_vars

\* SpecReads: the same, with the read requests.
NextReads ==
    \/ Tick
    \/ CreateUser
    \/ \E u \in UserIdInputs, a \in AssignedInputs, n \in DefaultNameInputs :
          StartSession(u, a, n)
    \/ \E s \in SessionIdInputs, c \in CompletedInputs : LogExercise(s, c)
    \/ \E s \in SessionIdInputs : EndSession(s)
    \/ \E u \in UserIdInputs : GetRecommendation(u)
    \/ \E u \in UserIdInputs, st \in StatusInputs :
          ListUserSessions(u, st, DefaultPage, DefaultLimit, "started_at", "desc")

SpecReads == Init /\ [][NextReads]_vars

\* SpecStats: the requests of SpecReads and the user statistics, all served
\* within one reading of the clock.
NextStats ==
    \/ CreateUser
    \/ \E u \in UserIdInputs, a \in AssignedInputs, n \in DefaultNameInputs :
          StartSession(u, a, n)
    \/ \E s \in SessionIdInputs, c \in CompletedInputs : LogExercise(s, c)
    \/ \E s \in SessionIdInputs : EndSession(s)
    \/ \E u \in UserIdInputs : GetRecommendation(u)
    \/ \E u \in UserIdInputs : GetUserStats(u)
    \/ \E u \in UserIdInputs, st \in StatusInputs :
          ListUserSessions(u, st, DefaultPage, DefaultLimit, "started_at", "desc")

SpecStats == Init /\ [][NextStats]_vars

\* SpecProgress: the history of one user, whose sessions differ in size.
NextProgress ==
    \/ Tick
    \/ CreateUser
    \/ \E u \in ProgressUserInputs, a \in ProgressAssignedInputs,
          n \in DefaultNameInputs : StartSession(u, a, n)
    \/ \E s \in SessionIdInputs, c \in CompletedInputs : LogExercise(s, c)
    \/ \E s \in SessionIdInputs : EndSession(s)
    \/ \E u \in ProgressUserInputs : GetRecommendation(u)

SpecProgress == Init /\ [][NextProgress]_vars

\* SpecLists: sessions of every user are started, logged and ended, and
\* the sessions of one user are listed page by page.
NextLists ==
    \/ Tick
    \/ CreateUser
    \/ \E u \in ListStartUserInputs, a \in ListAssignedInputs,
          n \in DefaultNameInputs : StartSession(u, a, n)
    \/ \E s \in SessionIdInputs, c \in ListCompletedInputs : LogExercise(s, c)
    \/ \E s \in SessionIdInputs : EndSession(s)
    \/ \E u \in ListUserInputs, st \in StatusInputs, page \in ListPageInputs,
          limit \in ListLimitInputs, sort_by \in SortInputs,
          order \in OrderInputs :
          ListUserSessions(u, st, page, limit, sort_by, order)

SpecLists == Init /\ [][NextLists]_vars

\* SpecSort: as SpecLists, the whole list of user 1 in every sort order.
NextSort ==
    \/ Tick
    \/ CreateUser
    \/ \E u \in ListStartUserInputs, a \in ListAssignedInputs,
          n \in DefaultNameInputs : StartSession(u, a, n)
    \/ \E s \in SessionIdInputs, c \in ListCompletedInputs : LogExercise(s, c)
    \/ \E s \in SessionIdInputs : EndSession(s)
    \/ \E u \in ListUserInputs, sort_by \in SortFieldInputs,
          order \in OrderFieldInputs :
          ListUserSessions(u, "all", DefaultPage, DefaultLimit, sort_by, order)

SpecSort == Init /\ [][NextSort]_vars

\* ------------------------------------ SpecConc: interleaved requests
\* Sessions that workers are about to insert count against the bound.
PendingStarts == Cardinality({p \in Procs : txn[p].pc = "start_commit"})

\* The worker sends its response and is free for the next request.
Finish(p, res) ==
    /\ txn' = [txn EXCEPT ![p] = Idle]
    /\ response' = res

\* create_workout_session up to the active-session check.
StartCheck(p, u, a, name) ==
    /\ txn[p].pc = "idle"
    /\ Len(sessions) + PendingStarts < MaxSessions
    /\ UNCHANGED <<users, sessions, exercises, recommendations, now, paging, calc>>
    /\ IF ~ValidSessionCreate(a)
       THEN Finish(p, ValidationError("start"))
       ELSE IF ~UserExists(u)
       THEN Finish(p, UserNotFoundException("start", u))
       ELSE IF ActiveSessionOf(u) # 0
       THEN Finish(p, ActiveSessionExistsException("start", u, ActiveSessionOf(u)))
       ELSE /\ txn' = [txn EXCEPT ![p] = [Idle EXCEPT
                           !.pc = "start_commit", !.id = u, !.a = a,
                           !.name = ExerciseNameOrDefault(name)]]
            /\ UNCHANGED response

\* create_workout_session from db.add(db_session) to db.commit().
StartCommit(p) ==
    /\ txn[p].pc = "start_commit"
    /\ InsertSessionAndExercise(txn[p].id, txn[p].a, txn[p].name)
    /\ Finish(p, Resp("start", "OK", Len(sessions) + 1, txn[p].a))
    /\ UNCHANGED <<users, recommendations, now, paging, calc>>

\* log_exercise up to the is_active check.
LogCheck(p, s, c) ==
    /\ txn[p].pc = "idle"
    /\ UNCHANGED <<users, sessions, exercises, recommendations, now, paging, calc>>
    /\ IF ~ValidExerciseLog(c)
       THEN Finish(p, ValidationError("log"))
       ELSE IF ~SessionExists(s)
       THEN Finish(p, WorkoutSessionNotFoundException("log", s))
       ELSE IF ~sessions[s].is_active
       THEN Finish(p, SessionNotActiveException("log", s))
       ELSE /\ txn' = [txn EXCEPT ![p] = [Idle EXCEPT
                           !.pc = "log_commit", !.id = s, !.c = c]]
            /\ UNCHANGED response

\* log_exercise: the assignment and db.commit().
LogCommit(p) ==
    /\ txn[p].pc = "log_commit"
    /\ UpdateCompletedReps(txn[p].id, txn[p].c)
    /\ Finish(p, Resp("log", "OK", txn[p].id, txn[p].c))
    /\ UNCHANGED <<users, sessions, recommendations, now, paging, calc>>

\* end_workout_session up to calculate_next_reps: the worker keeps the rows
\* it loaded (assigned and completed reps) and the ended_at it stamped.
EndCheck(p, s) ==
    /\ txn[p].pc = "idle"
    /\ UNCHANGED <<users, sessions, exercises, recommendations, now, paging, calc>>
    /\ IF ~SessionExists(s)
       THEN Finish(p, WorkoutSessionNotFoundException("end", s))
       ELSE IF ~sessions[s].is_active
       THEN Finish(p, SessionNotActiveException("end", s))
       ELSE IF exercises[ExerciseOf(s)].completed_reps = Null
       THEN Finish(p, ExerciseNotLoggedException("end", s))
       ELSE /\ txn' = [txn EXCEPT ![p] = [Idle EXCEPT
                           !.pc = "end_query", !.id = s, !.t = now,
                           !.a = exercises[ExerciseOf(s)].assigned_reps,
                           !.c = Get(exercises[ExerciseOf(s)].completed_reps)]]
            /\ UNCHANGED response

\* end_workout_session: the query for the user's recommendation row.
EndQuery(p) ==
    /\ txn[p].pc = "end_query"
    /\ txn' = [txn EXCEPT ![p].pc = "end_commit",
                          ![p].rec = RecommendationOf(sessions[txn[p].id].user_id)]
    /\ UNCHANGED <<users, sessions, exercises, recommendations, now, paging, calc, response>>

\* end_workout_session: db.commit().  An INSERT of a second recommendation
\* row for the user violates unique=True on user_id: the transaction is
\* rolled back and the request ends as an internal error.
EndCommit(p) ==
    LET s == txn[p].id
        u == sessions[s].user_id
        next_reps == calculate_next_reps(txn[p].a, txn[p].c)
    IN  /\ txn[p].pc = "end_commit"
        /\ UNCHANGED <<users, exercises, now, paging, calc>>
        /\ IF txn[p].rec = 0 /\ RecommendationsOf(u) # {}
           THEN /\ Finish(p, InternalServerError("end", s))
                /\ UNCHANGED <<sessions, recommendations>>
           ELSE /\ UpdateSessionEnded(s, txn[p].t)
                /\ UpsertRecommendation(u, txn[p].rec, next_reps)
                /\ Finish(p, Resp("end", "OK", s, next_reps))

NextConc ==
    \/ Tick
    \/ CreateUser
    \/ \E p \in Procs, u \in UserIdInputs, a \in AssignedInputs, n \in DefaultNameInputs :
          StartCheck(p, u, a, n)
    \/ \E p \in Procs : StartCommit(p)
    \/ \E p \in Procs, s \in SessionIdInputs, c \in CompletedInputs : LogCheck(p, s, c)
    \/ \E p \in Procs : LogCommit(p)
    \/ \E p \in Procs, s \in SessionIdInputs : EndCheck(p, s)
    \/ \E p \in Procs : EndQuery(p)
    \/ \E p \in Procs : EndCommit(p)

SpecConc == Init /\ [][NextConc]_vars

\* ------------------- SpecCalc: calculate_next_reps called on its own
\* The function is called with arbitrary arguments while users are created
\* and the clock advances; calc keeps the call and the one before it.
InitCalc ==
    /\ users = <<>>
    /\ sessions = <<>>
    /\ exercises = <<>>
    /\ recommendations = <<>>
    /\ now = 0
    /\ response = NoResponse
    /\ txn = [p \in Procs |-> Idle]
    /\ calc \in [assigned_reps : CalcInputs, completed_reps : CalcInputs,
                 result : {Null}, earlier : {Null}]
    /\ paging = NoPaging

CalculateNextReps ==
    /\ calc.result = Null
    /\ calc' = [calc EXCEPT !.result =
                   Some(calculate_next_reps(calc.assigned_reps,
                                            calc.completed_reps))]
    /\ UNCHANGED <<users, sessions, exercises, recommendations, now, paging, response,
                   txn>>

CallAgain(a, c) ==
    /\ calc.result # Null
    /\ calc' = [assigned_reps |-> a, completed_reps |-> c, result |-> Null,
                earlier |-> Some([assigned_reps |-> calc.assigned_reps,
                                  completed_reps |-> calc.completed_reps,
                                  result |-> Get(calc.result)])]
    /\ UNCHANGED <<users, sessions, exercises, recommendations, now, paging, response,
                   txn>>

NextCalc ==
    \/ Tick
    \/ CreateUser
    \/ CalculateNextReps
    \/ \E a \in CalcInputs, c \in CalcInputs : CallAgain(a, c)

SpecCalc == InitCalc /\ [][NextCalc]_vars

\* --------------------- SpecPage: the pagination of the listing routes
\* list_users and list_user_workouts compute the page size, the offset and
\* the number of pages in the same way from page, limit and the row count.
InitPage ==
    /\ users = <<>>
    /\ sessions = <<>>
    /\ exercises = <<>>
    /\ recommendations = <<>>
    /\ now = 0
    /\ response = NoResponse
    /\ txn = [p \in Procs |-> Idle]
    /\ calc = NoCall
    /\ paging \in [page : PageInputs, limit : LimitInputs, total : TotalInputs,
                   status : {"request"}, page_size : {0}, skip : {0},
                   total_pages : {0}]

\* The route serves the request.
Paginate ==
    /\ paging.status = "request"
    /\ \E outcome \in ListOutcomes(paging.total,
                                    Skip(paging.page, paging.limit),
                                    PageSize(paging.limit)) :
         IF outcome = "INTERNAL_SERVER_ERROR"
         THEN paging' = [paging EXCEPT !.status = outcome]
         ELSE paging' = [paging EXCEPT
                           !.status = outcome,
                           !.page_size = PageSize(paging.limit),
                           !.skip = Skip(paging.page, paging.limit),
                           !.total_pages = TotalPages(paging.total, paging.limit)]
    /\ UNCHANGED <<users, sessions, exercises, recommendations, now, response,
                   txn, calc>>

\* The next listing request.
PageRequest(page, limit, total) ==
    /\ paging.status # "request"
    /\ paging' = [page |-> page, limit |-> limit, total |-> total,
                  status |-> "request", page_size |-> 0, skip |-> 0,
                  total_pages |-> 0]
    /\ UNCHANGED <<users, sessions, exercises, recommendations, now, response,
                   txn, calc>>

NextPage ==
    \/ Paginate
    \/ \E page \in PageInputs, limit \in LimitInputs, total \in TotalInputs :
          PageRequest(page, limit, total)

SpecPage == InitPage /\ [][NextPage]_vars

\* =================================================================
\* Properties
\* =================================================================
\* C1: served one request at a time, no user ever has more than one session
\* with is_active = TRUE.
AtMostOneActiveSessionPerUser ==
    \A u \in UserIdInputs : Cardinality(ActiveSessionsOf(u)) <= 1

\* A user with an ended session and a second, active one.
C1Witness ==
    \E u \in UserIds : ActiveSessionsOf(u) # {} /\ EndedSessionsOf(u) # {}

\* C2: with interleaved start requests no two sessions of the same user are
\* active together (two racing starts do not both create a session).
ConcurrentStartsCreateOneSession ==
    \A i, j \in SessionIds :
        (sessions[i].user_id = sessions[j].user_id
            /\ sessions[i].is_active /\ sessions[j].is_active) => i = j

\* C3: a valid start request for a user whose session A is active answers
\* ACTIVE_SESSION_EXISTS with active_session_id = A and writes nothing.
StartWithActiveSessionConflicts ==
    [][response'.op = "start" =>
       \A u \in UserIdInputs, a \in AssignedInputs, n \in NameInputs :
        \A A \in SessionIds :
          (/\ StartSession(u, a, n)
           /\ a > 0
           /\ sessions[A].user_id = u
           /\ sessions[A].is_active)
          => /\ response'.op = "start"
             /\ response'.code = "ACTIVE_SESSION_EXISTS"
             /\ response'.value = A
             /\ store' = store]_vars

\* The last request was a start refused because of a session still active.
C3Witness ==
    /\ response.op = "start"
    /\ response.code = "ACTIVE_SESSION_EXISTS"
    /\ response.value \in SessionIds
    /\ sessions[response.value].is_active
    /\ sessions[response.value].user_id = response.id

\* Every session has exactly one exercise, every exercise has a session.
SessionExercisePaired ==
    /\ \A s \in SessionIds : Cardinality(ExercisesOf(s)) = 1
    /\ \A e \in 1..Len(exercises) : exercises[e].session_id \in SessionIds

\* C4: a successful start adds one session (active, ended_at NULL) together
\* with its exercise (the assigned reps and name of the request, completed
\* reps NULL), and sessions and exercises are paired one to one in every
\* state.
StartCreatesSessionWithExercise ==
    /\ []SessionExercisePaired
    /\ [][(response'.op = "start" /\ response'.code = "OK") =>
           \A u \in UserIdInputs, a \in AssignedInputs, n \in NameInputs :
            StartSession(u, a, n)
            => LET s == Len(sessions) + 1 IN
               /\ Len(sessions') = s
               /\ Len(exercises') = Len(exercises) + 1
               /\ \A i \in SessionIds : sessions'[i] = sessions[i]
               /\ \A i \in 1..Len(exercises) : exercises'[i] = exercises[i]
               /\ sessions'[s].user_id = u
               /\ sessions'[s].is_active
               /\ sessions'[s].ended_at = Null
               /\ sessions'[s].started_at = now
               /\ LET e == exercises'[Len(exercises')] IN
                  /\ e.session_id = s
                  /\ e.assigned_reps = a
                  /\ e.exercise_name = (IF n = "" THEN "Push-ups" ELSE n)
                  /\ e.completed_reps = Null
               /\ response'.id = s]_vars

\* The last request started a session under a name of its own.
C4Witness ==
    /\ response.op = "start"
    /\ response.code = "OK"
    /\ sessions[response.id].is_active
    /\ \E e \in 1..Len(exercises) :
          /\ exercises[e].session_id = response.id
          /\ exercises[e].exercise_name = "Squats"
          /\ exercises[e].completed_reps = Null

\* C5: end answers WORKOUT_SESSION_NOT_FOUND for an unknown id,
\* SESSION_NOT_ACTIVE for an ended session, EXERCISE_NOT_LOGGED for an
\* active session whose completed reps are NULL; each time nothing is
\* written.
EndPreconditionsInOrder ==
    [][response'.op = "end" =>
       \A s \in SessionIdInputs :
        EndSession(s) =>
          /\ s \notin SessionIds
               => /\ response' = Resp("end", "WORKOUT_SESSION_NOT_FOUND", s, 0)
                  /\ store' = store
          /\ (s \in SessionIds /\ ~sessions[s].is_active)
               => /\ response' = Resp("end", "SESSION_NOT_ACTIVE", s, 0)
                  /\ store' = store
          /\ (s \in SessionIds /\ sessions[s].is_active
                /\ \E e \in 1..Len(exercises) :
                      exercises[e].session_id = s /\ exercises[e].completed_reps = Null)
               => /\ response' = Resp("end", "EXERCISE_NOT_LOGGED", s, 0)
                  /\ store' = store]_vars

\* The last request tried to end a session that is ended already.
C5Witness ==
    /\ response.op = "end"
    /\ response.code = "SESSION_NOT_ACTIVE"
    /\ response.id \in SessionIds
    /\ ~sessions[response.id].is_active

\* C6: every ended session has an exercise with completed reps set.
EndedSessionIsLogged ==
    \A s \in SessionIds :
        ~sessions[s].is_active
        => \A e \in 1..Len(exercises) :
              exercises[e].session_id = s => exercises[e].completed_reps # Null

\* An ended session and an active one that is not logged yet.
C6Witness ==
    /\ \E s \in SessionIds : ~sessions[s].is_active
    /\ \E s \in SessionIds :
          sessions[s].is_active /\ exercises[ExerciseOf(s)].completed_reps = Null

\* C7: ending an active session logged with c of a assigned reps stamps
\* ended_at, clears is_active, leaves the user with the recommendation
\* nextReps(a, c) and answers that value; no state has an ended session whose
\* user lacks a recommendation.
EndStoresRecommendation ==
    /\ [](\A s \in SessionIds :
            ~sessions[s].is_active
            => \E r \in 1..Len(recommendations) :
                  recommendations[r].user_id = sessions[s].user_id)
    /\ [][response'.op = "end" =>
           \A s \in SessionIds, e \in 1..Len(exercises) :
            (/\ EndSession(s)
             /\ sessions[s].is_active
             /\ exercises[e].session_id = s
             /\ exercises[e].completed_reps # Null)
            => LET a == exercises[e].assigned_reps
                   c == Get(exercises[e].completed_reps)
                   n == Max(1, IF c >= a THEN a + 2 ELSE a - 1)
               IN  /\ sessions'[s].ended_at = Some(now)
                   /\ ~sessions'[s].is_active
                   /\ exercises' = exercises
                   /\ \E r \in 1..Len(recommendations') :
                         /\ recommendations'[r].user_id = sessions[s].user_id
                         /\ recommendations'[r].next_recommended_reps = n
                   /\ \A r \in 1..Len(recommendations') :
                         recommendations'[r].user_id = sessions[s].user_id
                         => recommendations'[r].next_recommended_reps = n
                   /\ response' = Resp("end", "OK", s, n)]_vars

\* The last request ended the second session of a user and replaced the
\* recommendation left by the first one.
C7Witness ==
    /\ response.op = "end"
    /\ response.code = "OK"
    /\ ~sessions[response.id].is_active
    /\ Cardinality(EndedSessionsOf(sessions[response.id].user_id)) = 2
    /\ \E i, j \in EndedSessionsOf(sessions[response.id].user_id) :
          exercises[ExerciseOf(i)].completed_reps # exercises[ExerciseOf(j)].completed_reps
    /\ recommendations[RecommendationOf(sessions[response.id].user_id)]
          .next_recommended_reps = response.value

\* C8: an ended session stays ended (is_active and ended_at never change
\* again), and only an active session can be ended successfully.
SessionLifecycleOneWay ==
    [][/\ \A s \in SessionIds :
            ~sessions[s].is_active => sessions'[s] = sessions[s]
       /\ (response'.op = "end" /\ response'.code = "OK") =>
            \A s \in SessionIds :
               EndSession(s) => (sessions[s].is_active /\ ~sessions'[s].is_active)]_vars

\* A log was refused on an ended session.
C8Witness ==
    /\ response.op = "log"
    /\ response.code = "SESSION_NOT_ACTIVE"
    /\ response.id \in SessionIds
    /\ ~sessions[response.id].is_active

\* C9: of interleaved end requests for one session exactly one succeeds: an
\* end that commits finds the session still active and answers OK, or finds
\* it ended and answers SESSION_NOT_ACTIVE; a user has one recommendation.
ConcurrentEndsOneSucceeds ==
    /\ [](\A u \in UserIdInputs : Cardinality(RecommendationsOf(u)) <= 1)
    /\ [][\A p \in Procs :
            EndCommit(p)
            => IF sessions[txn[p].id].is_active
               THEN response'.code = "OK"
               ELSE response' = Resp("end", "SESSION_NOT_ACTIVE", txn[p].id, 0)]_vars

\* C10: a valid log on an active session sets completed reps to the value of
\* the request (whatever was stored before) and changes nothing else;
\* logging the value already stored leaves the store as it is.
LogOverwritesCompletedReps ==
    [][response'.op = "log" =>
       \A s \in SessionIds, c \in CompletedInputs :
        (LogExercise(s, c) /\ c >= 0 /\ sessions[s].is_active)
        => /\ \A e \in 1..Len(exercises) :
                 exercises'[e] = IF exercises[e].session_id = s
                                 THEN [exercises[e] EXCEPT !.completed_reps = Some(c)]
                                 ELSE exercises[e]
           /\ Len(exercises') = Len(exercises)
           /\ <<users, sessions, recommendations>>' = <<users, sessions, recommendations>>
           /\ response' = Resp("log", "OK", s, c)
           /\ (\A e \in 1..Len(exercises) :
                  exercises[e].session_id = s => exercises[e].completed_reps = Some(c))
              => store' = store]_vars

\* The last request logged 0 reps on a session that is still active, after
\* another session has ended: the stored value is the one just sent.
C10Witness ==
    /\ response.op = "log"
    /\ response.code = "OK"
    /\ sessions[response.id].is_active
    /\ exercises[ExerciseOf(response.id)].completed_reps = Some(response.value)
    /\ response.value = 0
    /\ \E s \in SessionIds : ~sessions[s].is_active

\* C11: a log (with a valid count) answers WORKOUT_SESSION_NOT_FOUND for an
\* unknown id and SESSION_NOT_ACTIVE for an ended session, writing nothing;
\* the exercise of an ended session never changes again.
LogRejectedOnceEnded ==
    [][/\ response'.op = "log" =>
            \A s \in SessionIdInputs, c \in CompletedInputs :
              (LogExercise(s, c) /\ c >= 0) =>
                /\ s \notin SessionIds
                     => /\ response' = Resp("log", "WORKOUT_SESSION_NOT_FOUND", s, 0)
                        /\ store' = store
                /\ (s \in SessionIds /\ ~sessions[s].is_active)
                     => /\ response' = Resp("log", "SESSION_NOT_ACTIVE", s, 0)
                        /\ store' = store
       /\ \A e \in 1..Len(exercises) :
            (exercises[e].session_id \in SessionIds
               /\ ~sessions[exercises[e].session_id].is_active)
            => exercises'[e] = exercises[e]]_vars

\* A log with another count was refused on an ended session, whose
\* completed reps are still 1.
C11Witness ==
    /\ response.op = "log"
    /\ response.code = "SESSION_NOT_ACTIVE"
    /\ response.id \in SessionIds
    /\ ~sessions[response.id].is_active
    /\ exercises[ExerciseOf(response.id)].completed_reps = Some(1)

\* C12: with a log and an end of the same session interleaved, the exercise
\* of an ended session is final: no step changes its completed reps.
ConcurrentLogKeepsEndedExerciseFinal ==
    [][\A e \in 1..Len(exercises) :
          (exercises[e].session_id \in SessionIds
             /\ ~sessions[exercises[e].session_id].is_active)
          => exercises'[e].completed_reps = exercises[e].completed_reps]_vars

\* C13: for a > 0 and c >= 0, calculate_next_reps(a, c) is a + 2 when
\* c >= a, else a - 1 but at least 1; (10,10) gives 12, (10,5) gives 9 and
\* (1,0) gives 1.
NextRepsFormula ==
    calc.result # Null =>
      LET a == calc.assigned_reps
          c == calc.completed_reps
          r == Get(calc.result)
      IN  /\ (a > 0 /\ c >= 0) =>
               r = (IF c >= a THEN a + 2 ELSE IF a - 1 >= 1 THEN a - 1 ELSE 1)
          /\ (a = 10 /\ c = 10) => r = 12
          /\ (a = 10 /\ c = 5) => r = 9
          /\ (a = 1 /\ c = 0) => r = 1

C13Witness ==
    /\ calc.assigned_reps = 10
    /\ calc.completed_reps = 10
    /\ calc.result = Some(12)

OneRecommendationPerUser ==
    /\ [](\A u \in UserIds : Cardinality(RecommendationsOf(u)) <= 1)
    /\ [][response'.op = "end" =>
           \A s \in SessionIds :
             (EndSession(s) /\ response'.code = "OK") =>
               LET u == sessions[s].user_id
                   r == RecommendationOf(u)
               IN  IF r = 0
                   THEN /\ Len(recommendations') = Len(recommendations) + 1
                        /\ SubSeq(recommendations', 1, Len(recommendations))
                             = recommendations
                        /\ recommendations'[Len(recommendations')].user_id = u
                   ELSE /\ Len(recommendations') = Len(recommendations)
                        /\ recommendations'[r].user_id = u
                        /\ \A i \in 1..Len(recommendations) :
                             i # r => recommendations'[i] = recommendations[i]]_vars

\* A user has ended two sessions and has one recommendation, the only row.
C15Witness ==
    /\ Len(recommendations) = 1
    /\ \E u \in UserIds :
          /\ Cardinality(EndedSessionsOf(u)) = 2
          /\ Cardinality(RecommendationsOf(u)) = 1

\* C16: for an existing user getRecommendation answers the stored
\* recommendation's value when the user has one; otherwise nextReps of the
\* assigned and completed reps of an ended session with the latest ended_at
\* when the user has an ended session; otherwise 10.
RecommendedValueByPriority ==
    [][response'.op = "recommend" =>
        \A u \in UserIds :
          GetRecommendation(u) =>
            LET recs  == {r \in 1..Len(recommendations) :
                            recommendations[r].user_id = u}
                ended == {s \in SessionIds :
                            sessions[s].user_id = u /\ ~sessions[s].is_active}
                v     == response'.value
            IN  /\ response'.code = "OK"
                /\ response'.id = u
                /\ IF recs # {}
                   THEN \E r \in recs :
                           v = recommendations[r].next_recommended_reps
                   ELSE IF ended # {}
                   THEN \E s \in ended, e \in 1..Len(exercises) :
                           /\ \A t \in ended :
                                Get(sessions[s].ended_at)
                                  >= Get(sessions[t].ended_at)
                           /\ exercises[e].session_id = s
                           /\ LET a == exercises[e].assigned_reps
                                  c == Get(exercises[e].completed_reps)
                              IN  v = Max(1, IF c >= a THEN a + 2 ELSE a - 1)
                   ELSE v = 10]_vars

\* The stored value, which is not the default, was reported to a user with
\* an ended session.
C16Witness ==
    /\ response.op = "recommend"
    /\ response.code = "OK"
    /\ EndedSessionsOf(response.id) # {}
    /\ RecommendationsOf(response.id) # {}
    /\ response.value # 10
    /\ response.value
         = recommendations[RecommendationOf(response.id)].next_recommended_reps

\* C17: for a user without ended session getRecommendation answers 10,
\* "Starting recommendation", trend "new", total_increase 0, sessions_count 0
\* and no last session.
NewUserRecommendation ==
    [][response'.op = "recommend" =>
        \A u \in UserIds :
          (/\ GetRecommendation(u)
           /\ \A s \in SessionIds :
                sessions[s].user_id = u => sessions[s].is_active)
          => /\ response'.code = "OK"
             /\ response'.id = u
             /\ response'.value = 10
             /\ response'.view =
                  [reason |-> "Starting recommendation", trend |-> "new",
                   total_increase |-> 0, sessions_count |-> 0,
                   last_session |-> 0]]_vars

\* The answer for a user whose only session is active and logged.
C17Witness ==
    /\ response.op = "recommend"
    /\ response.code = "OK"
    /\ response.view.trend = "new"
    /\ response.value = 10
    /\ \E s \in SessionIds :
          /\ sessions[s].user_id = response.id
          /\ sessions[s].is_active
          /\ exercises[ExerciseOf(s)].completed_reps # Null

\* C18: for a user with an ended session, getRecommendation takes reason and
\* trend from an ended session with the greatest ended_at: "improving" /
\* "Completed all reps in last session" when its completed reps >= assigned
\* reps, else "adjusting" / "Did not complete all reps in last session";
\* active sessions play no part.
TrendFromLastEndedSession ==
    [][response'.op = "recommend" =>
        \A u \in UserIds :
          LET ended == {s \in SessionIds :
                          sessions[s].user_id = u /\ ~sessions[s].is_active}
          IN  (GetRecommendation(u) /\ ended # {}) =>
                /\ response'.code = "OK"
                /\ \E s \in ended, e \in 1..Len(exercises) :
                     /\ \A t \in ended :
                          Get(sessions[s].ended_at) >= Get(sessions[t].ended_at)
                     /\ exercises[e].session_id = s
                     /\ IF Get(exercises[e].completed_reps)
                             >= exercises[e].assigned_reps
                        THEN /\ response'.view.trend = "improving"
                             /\ response'.view.reason
                                  = "Completed all reps in last session"
                        ELSE /\ response'.view.trend = "adjusting"
                             /\ response'.view.reason
                                  = "Did not complete all reps in last session"]_vars

\* The user completed the session that ended first and not the one that
\* ended later: adjusting.
C18Witness ==
    /\ response.op = "recommend"
    /\ response.code = "OK"
    /\ response.view.trend = "adjusting"
    /\ \E s, t \in EndedSessionsOf(response.id) :
          /\ Get(sessions[s].ended_at) < Get(sessions[t].ended_at)
          /\ Get(exercises[ExerciseOf(s)].completed_reps)
               >= exercises[ExerciseOf(s)].assigned_reps
          /\ Get(exercises[ExerciseOf(t)].completed_reps)
               < exercises[ExerciseOf(t)].assigned_reps

\* C19: getRecommendation reports as sessions_count the number of ended
\* sessions of the user, and as total_increase the reported value minus the
\* assigned reps of an ended session with the least started_at, 0 when no
\* session of the user has ended.
ProgressionMetrics ==
    [][response'.op = "recommend" =>
        \A u \in UserIds :
          LET ended == {s \in SessionIds :
                          sessions[s].user_id = u /\ ~sessions[s].is_active}
          IN  GetRecommendation(u) =>
                /\ response'.code = "OK"
                /\ response'.view.sessions_count = Cardinality(ended)
                /\ IF ended = {}
                   THEN response'.view.total_increase = 0
                   ELSE \E s \in ended, e \in 1..Len(exercises) :
                          /\ \A t \in ended :
                               sessions[s].started_at <= sessions[t].started_at
                          /\ exercises[e].session_id = s
                          /\ response'.view.total_increase
                               = response'.value - exercises[e].assigned_reps]_vars

\* One ended session of 2 assigned reps, none completed, and a new active
\* session: the value 1 is 1 below the first session.
C19Witness ==
    /\ response.op = "recommend"
    /\ response.code = "OK"
    /\ response.view.sessions_count = 1
    /\ response.view.total_increase = -1
    /\ ActiveSessionsOf(response.id) # {}

\* C20 as stated: start, getRecommendation and the session listing answer
\* USER_NOT_FOUND for an unknown user whatever else the request holds, and
\* write nothing.
UnknownUserBeforeAnyCheck ==
    [][response'.op \in {"start", "recommend", "list"} =>
        \A u \in UserIdInputs \ UserIds :
          /\ \A a \in AssignedInputs, n \in DefaultNameInputs :
               StartSession(u, a, n)
               => response' = Resp("start", "USER_NOT_FOUND", u, 0)
                  /\ store' = store
          /\ GetRecommendation(u)
               => response' = Resp("recommend", "USER_NOT_FOUND", u, 0)
                  /\ store' = store
          /\ \A st \in StatusInputs :
               ListUserSessions(u, st, DefaultPage, DefaultLimit,
                                "started_at", "desc")
               => response' = Resp("list", "USER_NOT_FOUND", u, 0)
                  /\ store' = store]_vars

\* C20, for requests whose body passes validation (assigned_reps > 0): the
\* three operations answer USER_NOT_FOUND for an unknown user and write
\* nothing.
UnknownUserBeforeStoreChecks ==
    [][response'.op \in {"start", "recommend", "list"} =>
        \A u \in UserIdInputs \ UserIds :
          /\ \A a \in AssignedInputs, n \in DefaultNameInputs :
               (StartSession(u, a, n) /\ a > 0)
               => response' = Resp("start", "USER_NOT_FOUND", u, 0)
                  /\ store' = store
          /\ GetRecommendation(u)
               => response' = Resp("recommend", "USER_NOT_FOUND", u, 0)
                  /\ store' = store
          /\ \A st \in StatusInputs :
               ListUserSessions(u, st, DefaultPage, DefaultLimit,
                                "started_at", "desc")
               => response' = Resp("list", "USER_NOT_FOUND", u, 0)
                  /\ store' = store]_vars

\* The listing was refused for user 3, who does not exist, while other users
\* have sessions.
C20Witness ==
    /\ response = Resp("list", "USER_NOT_FOUND", MaxUsers + 1, 0)
    /\ Len(sessions) > 0

\* C21: a listing that answers reports total_pages = ceil(total / page_size)
\* when total > 0 and 1 when total = 0, page_size being the limit, or 100 when
\* the limit is larger; 45 rows with limit 20 are 3 pages.
TotalPagesIsCeiling ==
    paging.status = "OK" =>
      LET size == IF paging.limit > 100 THEN 100 ELSE paging.limit
          t    == paging.total
          n    == paging.total_pages
      IN  /\ paging.page_size = size
          /\ t = 0 => n = 1
          /\ (t > 0 /\ size > 0) => (n * size >= t /\ (n - 1) * size < t)
          /\ (t > 0 /\ size < 0) => (n * size <= t /\ (n - 1) * size > t)
          /\ (t = 45 /\ paging.limit = 20) => n = 3

\* 250 rows with limit 150: the page size is 100 and there are 3 pages.
C21Witness ==
    /\ paging.status = "OK"
    /\ paging.total = 250
    /\ paging.limit = 150
    /\ paging.page_size = 100
    /\ paging.total_pages = 3

\* C30: whatever integers page and limit are, the listing answers with a page
\* size between 1 and 100, a non-negative offset and total_pages >= 1.
PaginationAlwaysInRange ==
    paging.status \notin {"none", "request"} =>
      /\ paging.status = "OK"
      /\ paging.page_size \in 1..100
      /\ paging.skip >= 0
      /\ paging.total_pages >= 1

\* C22: in every state, whatever the request, a session listing that
\* answers counts and returns only the sessions of the user that pass the
\* status filter (is_active for "active", not is_active for "completed", all
\* for "all"); its items are the positions offset + 1 .. offset + page_size
\* of those sessions in the requested order, and total is their number
\* whatever the page and the limit.
ListFiltersThenPaginates ==
    \A u \in ListUserInputs, st \in StatusInputs, page \in ListPageInputs,
       limit \in ListLimitInputs, sort_by \in SortInputs, order \in OrderInputs :
      \A r \in ListResponses(u, st, page, limit, sort_by, order) :
        r.code = "OK" =>
          LET S == {s \in 1..Len(sessions) :
                      /\ sessions[s].user_id = u
                      /\ (st = "active") => sessions[s].is_active
                      /\ (st = "completed") => ~sessions[s].is_active}
              key(s) == IF sort_by = "id" THEN s ELSE sessions[s].started_at
              offset == (page - 1) * limit
          IN  /\ r.value = Cardinality(S)
              /\ \E all \in [1..Cardinality(S) -> S] :
                   /\ \A i, j \in 1..Cardinality(S) :
                        i < j => /\ all[i] # all[j]
                                 /\ order = "asc" => key(all[i]) <= key(all[j])
                                 /\ order # "asc" => key(all[i]) >= key(all[j])
                   /\ DOMAIN r.items =
                        {i \in 1..limit : offset + i <= Cardinality(S)}
                   /\ \A i \in DOMAIN r.items : r.items[i] = all[offset + i]

\* The second page of one item of the two sessions of user 1, newest first,
\* and the completed ones alone are fewer.
C22Witness ==
    /\ response.op = "list"
    /\ response.code = "OK"
    /\ response.value = 2
    /\ response.total_pages = 2
    /\ Len(response.items) = 1
    /\ \E s \in SessionIds :
          /\ sessions[s].user_id = response.id
          /\ sessions[s].started_at > sessions[response.items[1]].started_at
    /\ Cardinality({s \in SessionIds : sessions[s].user_id = response.id
                                        /\ ~sessions[s].is_active}) = 1

\* C23: a start for user u, and a log or an end of a session of user u,
\* leave every session, exercise and recommendation of the other users as
\* it was; a valid start for an existing user without active session
\* succeeds whatever sessions the other users have.
OtherUsersUntouched ==
    [][LET Untouched(u) ==
             /\ \A s \in 1..Len(sessions) :
                  sessions[s].user_id # u => sessions'[s] = sessions[s]
             /\ \A e \in 1..Len(exercises) :
                  sessions[exercises[e].session_id].user_id # u
                  => exercises'[e] = exercises[e]
             /\ \A r \in 1..Len(recommendations) :
                  recommendations[r].user_id # u
                  => recommendations'[r] = recommendations[r]
       IN  /\ response'.op = "start" =>
                \A u \in UserIdInputs, a \in AssignedInputs,
                   n \in DefaultNameInputs :
                  StartSession(u, a, n) =>
                    /\ Untouched(u)
                    /\ (/\ a > 0
                        /\ u \in 1..Len(users)
                        /\ \A s \in 1..Len(sessions) :
                             sessions[s].user_id = u => ~sessions[s].is_active)
                       => /\ response'.code = "OK"
                          /\ sessions'[Len(sessions')].user_id = u
           /\ response'.op = "log" =>
                \A s \in 1..Len(sessions), c \in CompletedInputs :
                  LogExercise(s, c) => Untouched(sessions[s].user_id)
           /\ response'.op = "end" =>
                \A s \in 1..Len(sessions) :
                  EndSession(s) => Untouched(sessions[s].user_id)]_vars

\* User 2 has just started a session while user 1 has an active session and
\* a recommendation.
C23Witness ==
    /\ response.op = "start"
    /\ response.code = "OK"
    /\ sessions[response.id].user_id = 2
    /\ \E s \in SessionIds : sessions[s].user_id = 1 /\ sessions[s].is_active

\* C24: every stored exercise has assigned reps > 0 and completed reps unset
\* or >= 0; a start with assigned reps <= 0 and a log with completed reps < 0
\* answer VALIDATION_ERROR and write nothing.
StoredRepsValid ==
    /\ [](\A e \in 1..Len(exercises) :
            /\ exercises[e].assigned_reps \in Nat \ {0}
            /\ \A c \in exercises[e].completed_reps : c \in Nat)
    /\ [][/\ response'.op = "start" =>
               \A u \in UserIdInputs, a \in AssignedInputs,
                  n \in DefaultNameInputs :
                 (StartSession(u, a, n) /\ a <= 0)
                 => /\ response' = Resp("start", "VALIDATION_ERROR", 0, 0)
                    /\ store' = store
          /\ response'.op = "log" =>
               \A s \in SessionIdInputs, c \in CompletedInputs :
                 (LogExercise(s, c) /\ c < 0)
                 => /\ response' = Resp("log", "VALIDATION_ERROR", 0, 0)
                    /\ store' = store]_vars

\* A log of -1 reps was refused on an active session that stays unlogged.
C24Witness ==
    /\ response = Resp("log", "VALIDATION_ERROR", 0, 0)
    /\ \E s \in SessionIds :
          /\ sessions[s].is_active
          /\ exercises[ExerciseOf(s)].completed_reps = Null
          /\ exercises[ExerciseOf(s)].assigned_reps = 1

\* C25: served one request at a time, a user with an ended session has a
\* stored recommendation whose value is nextReps of the assigned and
\* completed reps of an ended session of the user with the latest ended_at;
\* so getRecommendation never finds a last session without finding a stored
\* recommendation.
RecommendationFollowsLastEnd ==
    \A u \in 1..Len(users) :
      LET ended == {s \in 1..Len(sessions) :
                      sessions[s].user_id = u /\ ~sessions[s].is_active}
          recs  == {r \in 1..Len(recommendations) :
                      recommendations[r].user_id = u}
      IN  /\ ended # {} =>
               /\ recs # {}
               /\ \A r \in recs :
                    \E s \in ended, e \in 1..Len(exercises) :
                      /\ \A t \in ended :
                           Get(sessions[s].ended_at) >= Get(sessions[t].ended_at)
                      /\ exercises[e].session_id = s
                      /\ LET a == exercises[e].assigned_reps
                             c == Get(exercises[e].completed_reps)
                         IN  recommendations[r].next_recommended_reps
                               = (IF c >= a THEN a + 2
                                  ELSE IF a - 1 >= 1 THEN a - 1 ELSE 1)
          /\ \A last \in LastSessions(u) :
               ~(RecommendationOf(u) = 0 /\ HasExercise(last))

\* A user ended a completed session and later an incomplete one: the stored
\* value is 1, not 3.
C25Witness ==
    \E u \in UserIds :
      /\ RecommendationsOf(u) # {}
      /\ recommendations[RecommendationOf(u)].next_recommended_reps = 1
      /\ \E s, t \in EndedSessionsOf(u) :
            /\ Get(sessions[s].ended_at) < Get(sessions[t].ended_at)
            /\ exercises[ExerciseOf(s)].completed_reps = Some(1)
            /\ exercises[ExerciseOf(t)].completed_reps = Some(0)

\* C26: served one request at a time, the sessions of one user do not
\* overlap: an earlier session has ended, no later than the next one started;
\* so started_at and ended_at never order two ended sessions of a user in
\* opposite ways, the session get_recommendation takes first by started_at
\* is the one that ended first, and the one it takes last by ended_at is the
\* one that started last (sessions with equal timestamps are ordered by
\* neither field).
UserSessionsDoNotOverlap ==
    /\ \A s, t \in 1..Len(sessions) :
         (s < t /\ sessions[s].user_id = sessions[t].user_id) =>
            /\ ~sessions[s].is_active
            /\ sessions[s].ended_at # Null
            /\ Get(sessions[s].ended_at) <= sessions[t].started_at
    /\ \A u \in 1..Len(users) :
         LET ended == {s \in 1..Len(sessions) :
                         sessions[s].user_id = u /\ ~sessions[s].is_active}
         IN  /\ \A s, t \in ended :
                  /\ sessions[s].started_at < sessions[t].started_at
                       => Get(sessions[s].ended_at) <= Get(sessions[t].ended_at)
                  /\ Get(sessions[s].ended_at) < Get(sessions[t].ended_at)
                       => sessions[s].started_at <= sessions[t].started_at
             /\ \A f \in FirstSessions(u) \ {0} : \A t \in ended :
                  \/ Get(sessions[f].ended_at) <= Get(sessions[t].ended_at)
                  \/ sessions[f].started_at = sessions[t].started_at
             /\ \A l \in LastSessions(u) \ {0} : \A t \in ended :
                  \/ sessions[l].started_at >= sessions[t].started_at
                  \/ Get(sessions[l].ended_at) = Get(sessions[t].ended_at)

\* A user has two ended sessions with different start and end timestamps;
\* the first by started_at and the last by ended_at are then unique.
C26Witness ==
    \E u \in UserIds : \E s, t \in EndedSessionsOf(u) :
      /\ sessions[s].started_at < sessions[t].started_at
      /\ Get(sessions[s].ended_at) < Get(sessions[t].ended_at)
      /\ FirstSessions(u) = {s}
      /\ LastSessions(u) = {t}

\* C27: in every reachable state a session has ended_at set exactly when it
\* is not active.
EndedAtIffInactive ==
    \A s \in 1..Len(sessions) :
       (sessions[s].ended_at # Null) <=> ~sessions[s].is_active

\* One session of a user has ended and carries its end timestamp while
\* another session is active without one.
C27Witness ==
    \E s, t \in SessionIds :
       /\ ~sessions[s].is_active /\ sessions[s].ended_at # Null
       /\ sessions[t].is_active /\ sessions[t].ended_at = Null

\* C28: a recommendation row changes or appears only in a successful
\* end_workout_session and then belongs to the user of the ended session;
\* starting, logging, every refused request and every read leave the
\* recommendations as they were; and a started session is assigned the reps
\* the caller passed, whatever recommendation is stored.
RecommendationsChangeOnlyOnEnd ==
    [][ LET ended == response'.op = "end" /\ response'.code = "OK"
        IN  /\ ~ended => recommendations' = recommendations
            /\ ended =>
                 /\ Len(recommendations') >= Len(recommendations)
                 /\ \A r \in 1..Len(recommendations') :
                      (r > Len(recommendations)
                         \/ recommendations'[r] # recommendations[r])
                      => recommendations'[r].user_id
                           = sessions[response'.id].user_id
            /\ (response'.op = "start" /\ response'.code = "OK") =>
                 \A u \in UserIdInputs, a \in AssignedInputs :
                    StartSession(u, a, "") =>
                       /\ Len(exercises') = Len(exercises) + 1
                       /\ exercises'[Len(exercises')].session_id = response'.id
                       /\ exercises'[Len(exercises')].assigned_reps = a
      ]_vars

\* A user whose stored recommendation is 3 has just started a session of
\* 1 rep, and the recommendation is still 3 after the statistics were read.
C28Witness ==
    \E u \in UserIds :
      /\ RecommendationOf(u) # 0
      /\ recommendations[RecommendationOf(u)].next_recommended_reps = 3
      /\ ActiveSessionOf(u) # 0
      /\ exercises[ExerciseOf(ActiveSessionOf(u))].assigned_reps = 1
      /\ response.op = "stats" /\ response.code = "OK" /\ response.id = u

\* C29: served one request at a time, in every reachable state the
\* current_recommended_reps that get_user_stats reports for a user equals
\* the recommended_reps that get_recommendation reports for that user,
\* whichever last session the latter is given.
StatsAgreeWithRecommendation ==
    /\ \A u \in 1..Len(users) : \A last \in LastSessions(u) :
          CurrentRecommendedReps(u) = RecommendedReps(u, last)
    /\ (response.op = "stats" /\ response.code = "OK") =>
          \A last \in LastSessions(response.id) :
             response.value = RecommendedReps(response.id, last)
    /\ (response.op = "recommend" /\ response.code = "OK") =>
          response.value = CurrentRecommendedReps(response.id)

\* The statistics of a user with an ended session report 3, and those of a
\* user without any session report the default.
C29Witness ==
    /\ response.op = "stats" /\ response.code = "OK"
    /\ EndedSessionsOf(response.id) # {}
    /\ response.value = 3
    /\ \E v \in UserIds :
          /\ {s \in SessionIds : sessions[s].user_id = v} = {}
          /\ CurrentRecommendedReps(v) = DefaultReps
          /\ \A last \in LastSessions(v) : RecommendedReps(v, last) = DefaultReps

\* C31: a session listing sorted by a name that is not a sortable column of
\* the session (an unknown name, or an attribute that is not a column, such
\* as a relationship) answers with the rows ordered by started_at, a listing
\* sorted by a column with the rows ordered by that column; ascending when
\* order = "asc" and descending for every other value.
SortFallsBackToDefault ==
    \A u \in ListUserInputs, sort_by \in SortFieldInputs,
       order \in OrderFieldInputs :
      \A r \in ListResponses(u, "all", DefaultPage, DefaultLimit, sort_by, order) :
        UserExists(u) =>
          /\ r.code = "OK"
          /\ \E nulls_low \in BOOLEAN :
               LET field == IF sort_by \in {"id", "user_id", "started_at",
                                            "ended_at", "is_active"}
                            THEN sort_by ELSE "started_at"
                   key(s) ==
                     CASE field = "id" -> s
                       [] field = "user_id" -> sessions[s].user_id
                       [] field = "is_active" ->
                            IF sessions[s].is_active THEN 1 ELSE 0
                       [] field = "ended_at" ->
                            IF sessions[s].ended_at # Null
                            THEN Get(sessions[s].ended_at)
                            ELSE IF nulls_low THEN -1 ELSE Cardinality(Timestamps)
                       [] OTHER -> sessions[s].started_at
               IN  \A i, j \in DOMAIN r.items :
                     i < j =>
                       /\ order = "asc" => key(r.items[i]) <= key(r.items[j])
                       /\ order # "asc" => key(r.items[i]) >= key(r.items[j])

====
